---- MODULE Spec2Model ----
(***************************************************************************)
(* Model of src/app.py: the permit-request application (Flask,             *)
(* flask-login, SQLAlchemy).  The state is the two tables (Usuario,        *)
(* SolicitudDB), the login session of each browser, the response of the    *)
(* last handler, and the position of each in-flight call of                *)
(* gestionar_solicitud_db.                                                 *)
(***************************************************************************)
EXTENDS Integers, Sequences, FiniteSets, TLC

VARIABLES usuarios, sesion, solicitudes, last, hilo

vars == <<usuarios, sesion, solicitudes, last, hilo>>

-----------------------------------------------------------------------------
(* Bounds *)

\* rows of the Usuario table (the two seeded accounts included)
MaxUsuarios == 3
\* rows of the SolicitudDB table, and the largest id handed out
MaxSolicitudes == 2

-----------------------------------------------------------------------------
(* Values *)

\* Python's None (a NULL column, a missing form field)
None == "None"

\* the browsers that hold a session cookie
Clientes == {"c1", "c2"}

\* flask-login's AnonymousUserMixin: no user id in the session
Anonimo == 0

\* the ids a form or a URL can name
IdsSolicitud == 1..MaxSolicitudes

\* ROLES, app.py:103-108
ROLES ==
    [Administrador |-> {"ver_panel", "generar_pdf", "gestionar_solicitud", "gestionar_usuarios"},
     Guardia       |-> {"ver_panel", "generar_pdf"},
     Ventas        |-> {"ver_informe"},
     Editor        |-> {"editar_producto"}]

\* every capability tag the code asks for or the table grants
Permisos ==
    {"ver_panel", "generar_pdf", "gestionar_solicitud", "gestionar_usuarios",
     "ver_informe", "editar_producto"}

\* generate_password_hash: a one-way, tagged digest of the password
generate_password_hash(password) == [metodo |-> "pbkdf2", digest |-> password]

\* a password_hash column that was never set
SinHash == [metodo |-> "", digest |-> ""]

\* Usuario.check_password
check_password(u, password) ==
    IF u.password_hash = SinHash THEN FALSE
    ELSE u.password_hash = generate_password_hash(password)

\* Usuario(username=..., rol=...) followed by set_password
Usuario(username, password, rol) ==
    [username |-> username, password_hash |-> generate_password_hash(password), rol |-> rol]

\* the two accounts created at startup on an empty database
UsuariosIniciales ==
    << Usuario("victor_admin", "admin123", "Administrador"),
       Usuario("GUARDIA", "guardia123", "Guardia") >>

-----------------------------------------------------------------------------
(* Dates as the strings the code stores and compares *)

\* a calendar of consecutive days across a month boundary: <<month, day>>
Calendario == << <<1, 30>>, <<1, 31>>, <<2, 1>>, <<2, 2>> >>

Dias == 1..Len(Calendario)

\* character codes: '-' sorts below the digits, as in ASCII
Digito(n) == 48 + n
DosDigitos(n) == << Digito(n \div 10), Digito(n % 10) >>
Anio == << Digito(2), Digito(0), Digito(2), Digito(4) >>

\* strftime('%Y-%m-%d') of day number i of the calendar: zero padded
strftime(i) ==
    Anio \o <<45>> \o DosDigitos(Calendario[i][1]) \o <<45>> \o DosDigitos(Calendario[i][2])

\* the same day typed without zero padding, e.g. "2024-2-2"
SinRelleno(i) ==
    LET num(n) == IF n < 10 THEN << Digito(n) >> ELSE DosDigitos(n)
    IN  Anio \o <<45>> \o num(Calendario[i][1]) \o <<45>> \o num(Calendario[i][2])

\* string comparison a <= b, character by character (SQL <= on String columns)
RECURSIVE StrLeq(_, _)
StrLeq(a, b) ==
    IF a = <<>> THEN TRUE
    ELSE IF b = <<>> THEN FALSE
    ELSE IF Head(a) < Head(b) THEN TRUE
    ELSE IF Head(a) > Head(b) THEN FALSE
    ELSE StrLeq(Tail(a), Tail(b))

-----------------------------------------------------------------------------
(* Tables *)

IdsUsuario == 1..Len(usuarios)

\* Usuario.query.filter_by(username=x).first(): the id of the row, or Anonimo
BuscarUsuario(username) ==
    IF \E i \in IdsUsuario : usuarios[i].username = username
    THEN CHOOSE i \in IdsUsuario :
            /\ usuarios[i].username = username
            /\ \A j \in IdsUsuario : usuarios[j].username = username => i <= j
    ELSE Anonimo

\* SolicitudDB.query.get(id)
Existe(id) == \E s \in solicitudes : s.id = id
Solicitud(id) == CHOOSE s \in solicitudes : s.id = id

\* the id the database gives a new row: the largest id + 1, as the SQLite
\* store of the local configuration does (a sequence that never reuses an id
\* differs only in the ids of rows inserted after a deletion)
NuevoId ==
    IF solicitudes = {} THEN 1
    ELSE (CHOOSE m \in {s.id : s \in solicitudes} :
            \A s \in solicitudes : s.id <= m) + 1

\* current_user of the browser c
Autenticado(c) == sesion[c] # Anonimo
current_user(c) == usuarios[sesion[c]]

\* a lookup that grants everything to a role it does not know
RolesGet_Todo(rol) == IF rol \in DOMAIN ROLES THEN ROLES[rol] ELSE Permisos

\* ROLES.get(rol, [])
RolesGet(rol) == IF rol \in DOMAIN ROLES THEN ROLES[rol] ELSE {}

\* a check that asks only whether somebody is logged in
tiene_permiso_SinRol(c, permiso_requerido) == Autenticado(c)

\* tiene_permiso, app.py:110-113
tiene_permiso(c, permiso_requerido) ==
    IF ~Autenticado(c) THEN FALSE
    ELSE permiso_requerido \in RolesGet(current_user(c).rol)

\* an in-flight call of gestionar_solicitud_db: its arguments, the row it loaded
Hilo(pc, id, accion, autorizador, estado0, autorizador0, ret) ==
    [pc |-> pc, id |-> id, accion |-> accion, autorizador |-> autorizador,
     estado0 |-> estado0, autorizador0 |-> autorizador0, ret |-> ret]

HiloInicial == Hilo("libre", 0, None, None, None, None, None)

\* what the last handler was asked and what it answered
Respuesta(op, c, id, arg, ret) ==
    [op |-> op, cli |-> c, id |-> id, arg |-> arg, ret |-> ret, filas |-> {}]

Init ==
    /\ usuarios = UsuariosIniciales
    /\ sesion = [c \in Clientes |-> Anonimo]
    /\ solicitudes = {}
    /\ last = Respuesta("inicio", None, 0, None, None)
    /\ hilo = [c \in Clientes |-> HiloInicial]

-----------------------------------------------------------------------------
(* Handlers *)

\* login, app.py:190-200
Login(c, username, password) ==
    /\ IF Autenticado(c)
       THEN /\ last' = Respuesta("login", c, 0, username, "panel_admin")
            /\ UNCHANGED sesion
       ELSE LET user == BuscarUsuario(username)
            IN  IF user # Anonimo /\ check_password(usuarios[user], password)
                THEN /\ sesion' = [sesion EXCEPT ![c] = user]
                     /\ last' = Respuesta("login", c, 0, username, "panel_admin")
                ELSE /\ last' = Respuesta("login", c, 0, username, "Credenciales invalidas")
                     /\ UNCHANGED sesion
    /\ UNCHANGED <<usuarios, solicitudes, hilo>>

\* logout, app.py:202-206 (login_required sends an anonymous browser to /login)
Logout(c) ==
    /\ IF Autenticado(c)
       THEN /\ sesion' = [sesion EXCEPT ![c] = Anonimo]
            /\ last' = Respuesta("logout", c, 0, None, "login")
       ELSE /\ last' = Respuesta("logout", c, 0, None, "login_required")
            /\ UNCHANGED sesion
    /\ UNCHANGED <<usuarios, solicitudes, hilo>>

\* SolicitudDB(...) with the column defaults, app.py:61-71, 213-218
SolicitudDB(id, inicio, fin) ==
    [id |-> id, fecha_inicio_str |-> inicio, fecha_fin_str |-> fin,
     estado |-> "PENDIENTE", autorizador |-> None]

\* formulario_solicitud (POST), app.py:208-221: no authentication required
FormularioSolicitud(inicio, fin) ==
    /\ NuevoId <= MaxSolicitudes
    /\ solicitudes' = solicitudes \cup {SolicitudDB(NuevoId, inicio, fin)}
    /\ last' = Respuesta("formulario_solicitud", None, NuevoId, None, "confirmacion")
    /\ UNCHANGED <<usuarios, sesion, hilo>>

\* a transition that forgets the assignment of autorizador
Flush_SoloEstado(fila, estado0, autorizador0, nueva_estado, usuario_autorizador) ==
    [fila EXCEPT !.estado = nueva_estado]

\* db.session.commit() of a loaded row whose attributes were assigned
\* (app.py:120-122): the UPDATE carries the columns whose assigned value
\* differs from the value query.get loaded, and reaches the row as it is now
Flush(fila, estado0, autorizador0, nueva_estado, usuario_autorizador) ==
    [fila EXCEPT
        !.estado = IF nueva_estado # estado0 THEN nueva_estado ELSE @,
        !.autorizador = IF usuario_autorizador # autorizador0 THEN usuario_autorizador ELSE @]

\* a transition that looks the request up without asking for the capability
gestionar_solicitud_db_SinPermiso(c, usuario_autorizador, solicitud_id, nueva_estado) ==
    IF Existe(solicitud_id)
    THEN [ret |-> "True",
          db  |-> {IF s.id = solicitud_id
                   THEN [s EXCEPT !.estado = nueva_estado,
                                  !.autorizador = usuario_autorizador]
                   ELSE s : s \in solicitudes}]
    ELSE [ret |-> "False", db |-> solicitudes]

\* gestionar_solicitud_db, app.py:115-124: the return value and the table after it
gestionar_solicitud_db(c, usuario_autorizador, solicitud_id, nueva_estado) ==
    IF ~tiene_permiso(c, "gestionar_solicitud")
    THEN [ret |-> "False", db |-> solicitudes]
    ELSE IF Existe(solicitud_id)
    THEN [ret |-> "True",
          db  |-> {IF s.id = solicitud_id
                   THEN Flush(s, s.estado, s.autorizador, nueva_estado, usuario_autorizador)
                   ELSE s : s \in solicitudes}]
    ELSE [ret |-> "False", db |-> solicitudes]

\* gestionar (POST /gestionar_autorizacion), app.py:236-240
Gestionar(c, solicitud_id, accion) ==
    /\ IF Autenticado(c)
       THEN LET r == gestionar_solicitud_db(c, current_user(c).username, solicitud_id, accion)
            IN  /\ solicitudes' = r.db
                /\ last' = Respuesta("gestionar", c, solicitud_id, accion, r.ret)
       ELSE /\ last' = Respuesta("gestionar", c, solicitud_id, accion, "login_required")
            /\ UNCHANGED solicitudes
    /\ UNCHANGED <<usuarios, sesion, hilo>>

\* a deletion open to every logged-in user
EliminarSolicitud_SinPermiso(c, id) ==
    /\ IF Autenticado(c) /\ Existe(id)
       THEN /\ solicitudes' = solicitudes \ {Solicitud(id)}
            /\ last' = Respuesta("eliminar_solicitud", c, id, None, "Eliminada")
       ELSE /\ last' = Respuesta("eliminar_solicitud", c, id, None, "lista")
            /\ UNCHANGED solicitudes
    /\ UNCHANGED <<usuarios, sesion, hilo>>

\* eliminar_solicitud, app.py:275-284
EliminarSolicitud(c, id) ==
    /\ IF ~Autenticado(c)
       THEN /\ last' = Respuesta("eliminar_solicitud", c, id, None, "login_required")
            /\ UNCHANGED solicitudes
       ELSE IF tiene_permiso(c, "gestionar_solicitud") /\ Existe(id)
       THEN /\ solicitudes' = solicitudes \ {Solicitud(id)}
            /\ last' = Respuesta("eliminar_solicitud", c, id, None, "Eliminada")
       ELSE /\ last' = Respuesta("eliminar_solicitud", c, id, None, "lista")
            /\ UNCHANGED solicitudes
    /\ UNCHANGED <<usuarios, sesion, hilo>>

\* a check that looks at the first row only
UsuarioYaExiste_SoloPrimero(username) == usuarios[1].username = username

\* the check gestionar_usuarios makes before it inserts, app.py:265
UsuarioYaExiste(username) == BuscarUsuario(username) # Anonimo

\* the constraints of the Usuario table, app.py:46-48: username is UNIQUE and
\* NOT NULL, rol is NOT NULL; an INSERT that breaks one fails (IntegrityError)
ViolaRestriccion(username, rol) ==
    \/ username = None
    \/ rol = None
    \/ \E i \in IdsUsuario : usuarios[i].username = username

\* gestionar_usuarios (POST), app.py:260-273; a form field that is missing is None
GestionarUsuarios(c, username, password, rol) ==
    /\ IF ~Autenticado(c)
       THEN /\ last' = Respuesta("gestionar_usuarios", c, 0, username, "login_required")
            /\ UNCHANGED usuarios
       ELSE IF ~tiene_permiso(c, "gestionar_usuarios")
       THEN /\ last' = Respuesta("gestionar_usuarios", c, 0, username, "403")
            /\ UNCHANGED usuarios
       ELSE IF UsuarioYaExiste(username)
       THEN /\ last' = Respuesta("gestionar_usuarios", c, 0, username, "Usuario ya existe")
            /\ UNCHANGED usuarios
       ELSE IF ViolaRestriccion(username, rol)
       THEN /\ last' = Respuesta("gestionar_usuarios", c, 0, username, "500")
            /\ UNCHANGED usuarios
       ELSE /\ Len(usuarios) < MaxUsuarios
            /\ usuarios' = Append(usuarios, Usuario(username, password, rol))
            /\ last' = Respuesta("gestionar_usuarios", c, 0, username, "Usuario creado")
    /\ UNCHANGED <<sesion, solicitudes, hilo>>

\* panel_admin, app.py:229-234: the pending requests, or 403
PanelAdmin(c) ==
    /\ IF ~Autenticado(c)
       THEN last' = Respuesta("panel_admin", c, 0, None, "login_required")
       ELSE IF ~tiene_permiso(c, "ver_panel")
       THEN last' = Respuesta("panel_admin", c, 0, None, "403")
       ELSE last' = [Respuesta("panel_admin", c, 0, None, "200") EXCEPT
                        !.filas = {s.id : s \in {t \in solicitudes : t.estado = "PENDIENTE"}}]
    /\ UNCHANGED <<usuarios, sesion, solicitudes, hilo>>

\* a filter whose upper bound is exclusive
VigentesHoy_Exclusivo(hoy_str) ==
    {s \in solicitudes :
        /\ StrLeq(s.fecha_inicio_str, hoy_str)
        /\ StrLeq(hoy_str, s.fecha_fin_str) /\ hoy_str # s.fecha_fin_str}

\* the filter of lista_general_solicitudes and descargar_pdf_hoy,
\* app.py:249-252 and 306-309
VigentesHoy(hoy_str) ==
    {s \in solicitudes : StrLeq(s.fecha_inicio_str, hoy_str) /\ StrLeq(hoy_str, s.fecha_fin_str)}

\* lista_general_solicitudes, app.py:242-258; hoy is the day datetime.now() falls on
ListaGeneralSolicitudes(modo, hoy) ==
    /\ LET hoy_str == strftime(hoy)
           filas == IF modo = "hoy" THEN VigentesHoy(hoy_str) ELSE solicitudes
       IN  last' = [Respuesta("lista_general_solicitudes", None, hoy, modo, "200") EXCEPT
                        !.filas = {s.id : s \in filas}]
    /\ UNCHANGED <<usuarios, sesion, solicitudes, hilo>>

\* descargar_pdf_hoy, app.py:296-313
DescargarPdfHoy(c, hoy) ==
    /\ IF ~Autenticado(c)
       THEN last' = Respuesta("descargar_pdf_hoy", c, hoy, None, "login_required")
       ELSE IF ~tiene_permiso(c, "generar_pdf")
       THEN last' = Respuesta("descargar_pdf_hoy", c, hoy, None, "No tienes permiso")
       ELSE last' = [Respuesta("descargar_pdf_hoy", c, hoy, None, "pdf") EXCEPT
                        !.filas = {s.id : s \in VigentesHoy(strftime(hoy))}]
    /\ UNCHANGED <<usuarios, sesion, solicitudes, hilo>>


-----------------------------------------------------------------------------
(* gestionar_solicitud_db step by step, for calls that overlap *)

\* gestionar up to the capability check, app.py:239 and 116-117
RecibirGestionar(c, solicitud_id, accion) ==
    /\ hilo[c].pc \in {"libre", "hecho"}
    /\ Autenticado(c)
    /\ IF tiene_permiso(c, "gestionar_solicitud")
       THEN hilo' = [hilo EXCEPT ![c] =
                Hilo("leer", solicitud_id, accion, current_user(c).username, None, None, None)]
       ELSE hilo' = [hilo EXCEPT ![c] =
                Hilo("hecho", solicitud_id, accion, current_user(c).username, None, None, "False")]
    /\ UNCHANGED <<usuarios, sesion, solicitudes, last>>

\* SolicitudDB.query.get, app.py:118-119: the row is loaded into the session
LeerSolicitud(c) ==
    /\ hilo[c].pc = "leer"
    /\ IF Existe(hilo[c].id)
       THEN hilo' = [hilo EXCEPT ![c].pc = "commit",
                                 ![c].estado0 = Solicitud(hilo[c].id).estado,
                                 ![c].autorizador0 = Solicitud(hilo[c].id).autorizador]
       ELSE hilo' = [hilo EXCEPT ![c].pc = "hecho", ![c].ret = "False"]
    /\ UNCHANGED <<usuarios, sesion, solicitudes, last>>

\* the two assignments and db.session.commit(), app.py:120-123
CommitSolicitud(c) ==
    /\ hilo[c].pc = "commit"
    /\ Existe(hilo[c].id)
    /\ solicitudes' =
         {IF s.id = hilo[c].id
          THEN Flush(s, hilo[c].estado0, hilo[c].autorizador0, hilo[c].accion, hilo[c].autorizador)
          ELSE s : s \in solicitudes}
    /\ hilo' = [hilo EXCEPT ![c].pc = "hecho", ![c].ret = "True",
                            ![c].estado0 = None, ![c].autorizador0 = None]
    /\ last' = Respuesta("gestionar", c, hilo[c].id, hilo[c].accion, "True")
    /\ UNCHANGED <<usuarios, sesion>>

-----------------------------------------------------------------------------
(* Inputs of the forms *)

\* the passwords typed at /login and /gestionar_usuarios
Claves == {"admin123", "guardia123", "clave"}

\* the values of the field accion of /gestionar_autorizacion: any string is taken
Acciones == {"APROBADA", "RECHAZADA", "PENDIENTE", "ARCHIVADA"}

\* the two values the review of a pending request sends
Botones == {"APROBADA", "RECHAZADA"}

\* usernames typed in the forms: a new one, and the seeded ones
Nombres == {"victor_admin", "GUARDIA", "ana"}

\* the roles a creation form sends
RolesBasicos == {"Administrador", "Ventas", "Intruso"}

\* usernames and roles of arbitrary creation forms: an exact duplicate, a
\* spelling that differs only in case, a missing field
NombresForm == {"GUARDIA", "guardia", "ana", None}
RolesForm == {"Administrador", "Guardia", "Ventas", "Editor", "Intruso", None}

\* the date fields of the form, as the browser's date input sends them
FechasBasicas == {strftime(2)}

\* the date fields of arbitrary forms: ISO dates and one without zero padding
FechasForm == {strftime(2), strftime(3), SinRelleno(3)}

\* With one request at a time a second browser reaches no table that one
\* browser logging in and out does not reach: the sequential specifications
\* drive one browser, the overlapping calls come from both.
Navegador == {"c1"}

-----------------------------------------------------------------------------
(* The application, one request at a time *)

PedirLogin == \E c \in Navegador, u \in Nombres, p \in Claves : Login(c, u, p)
PedirLogout == \E c \in Navegador : Logout(c)
PedirSolicitud == \E i, f \in FechasBasicas : FormularioSolicitud(i, f)
PedirGestionar == \E c \in Navegador, id \in IdsSolicitud, a \in Acciones : Gestionar(c, id, a)
PedirEliminar == \E c \in Navegador, id \in IdsSolicitud : EliminarSolicitud(c, id)
PedirUsuario ==
    \E c \in Navegador, u \in Nombres, r \in RolesBasicos : GestionarUsuarios(c, u, "clave", r)
PedirPanel == \E c \in Navegador : PanelAdmin(c)

Next ==
    \/ PedirLogin
    \/ PedirLogout
    \/ PedirSolicitud
    \/ PedirGestionar
    \/ PedirEliminar
    \/ PedirUsuario
    \/ PedirPanel

Spec == Init /\ [][Next]_vars

-----------------------------------------------------------------------------
(* The application when the review sends only APROBADA or RECHAZADA *)

PulsarBoton == \E c \in Navegador, id \in IdsSolicitud, a \in Botones : Gestionar(c, id, a)

NextPanel ==
    \/ PedirLogin
    \/ PedirLogout
    \/ PedirSolicitud
    \/ PulsarBoton
    \/ PedirEliminar
    \/ PedirUsuario

SpecPanel == Init /\ [][NextPanel]_vars

-----------------------------------------------------------------------------
(* The Credential Store under arbitrary creation forms *)

LoginCreado == \E c \in Navegador, u \in NombresForm \cup Nombres, p \in Claves : Login(c, u, p)
CrearUsuario ==
    \E c \in Navegador, u \in NombresForm, r \in RolesForm : GestionarUsuarios(c, u, "clave", r)

NextUsuarios ==
    \/ LoginCreado
    \/ PedirLogout
    \/ CrearUsuario
    \/ PedirPanel

SpecUsuarios == Init /\ [][NextUsuarios]_vars

-----------------------------------------------------------------------------
(* The Request Store under arbitrary date fields, and the queries by date *)

EnviarFechas == \E i, f \in FechasForm : FormularioSolicitud(i, f)
ListarSolicitudes == \E m \in {"hoy", "todas"}, hoy \in Dias : ListaGeneralSolicitudes(m, hoy)
DescargarHoy == \E c \in Navegador, hoy \in Dias : DescargarPdfHoy(c, hoy)
LoginGuardia == \E c \in Navegador : Login(c, "GUARDIA", "guardia123")

NextFechas ==
    \/ LoginGuardia
    \/ EnviarFechas
    \/ ListarSolicitudes
    \/ DescargarHoy

SpecFechas == Init /\ [][NextFechas]_vars

-----------------------------------------------------------------------------
(* Two browsers whose calls of gestionar_solicitud_db overlap *)

LoginAmbos == \E c \in Clientes, u \in Nombres, p \in Claves : Login(c, u, p)
CrearAdministrador == \E c \in Clientes : GestionarUsuarios(c, "ana", "clave", "Administrador")
Recibir ==
    \E c \in Clientes, id \in IdsSolicitud, a \in Botones : RecibirGestionar(c, id, a)
Leer == \E c \in Clientes : LeerSolicitud(c)
Commit == \E c \in Clientes : CommitSolicitud(c)

NextCarrera ==
    \/ LoginAmbos
    \/ CrearAdministrador
    \/ PedirSolicitud
    \/ Recibir
    \/ Leer
    \/ Commit

SpecCarrera == Init /\ [][NextCarrera]_vars

-----------------------------------------------------------------------------
(* Claims about the Request Store and the Authorization Engine (Spec) *)

\* the role of the user logged in at browser c grants gestionar_solicitud
EsGestor(c) == Autenticado(c) /\ current_user(c).rol = "Administrador"

\* C1: every stored request has its autorizador set if and only if its estado
\* is not PENDIENTE.
C1_AutorizadorSiiNoPendiente ==
    \A s \in solicitudes : (s.autorizador # None) <=> (s.estado # "PENDIENTE")

\* C2: gestionar_solicitud_db is fail-closed.  Whenever the actor lacks the
\* gestionar_solicitud capability (anonymous, a role other than Administrador,
\* a role that is no key of ROLES) or no request has the id, the function
\* returns False and hands back the table it was given; and a step of the
\* handler gestionar under that condition leaves every request as it was and
\* does not answer True.
C2_FuncionFallaCerrada ==
    \A c \in Clientes, id \in IdsSolicitud, a \in Acciones, u \in Nombres :
        (~EsGestor(c) \/ ~Existe(id)) =>
            gestionar_solicitud_db(c, u, id, a) = [ret |-> "False", db |-> solicitudes]

C2_PasoFallaCerrada ==
    (last'.op = "gestionar" /\ (~EsGestor(last'.cli) \/ ~Existe(last'.id)))
        => (solicitudes' = solicitudes /\ last'.ret # "True")

C2_FallaCerrada == [](C2_FuncionFallaCerrada) /\ [][C2_PasoFallaCerrada]_vars

\* a refused call on a store that holds requests, by a logged-in user whose
\* role is no key of ROLES
C2_Testigo ==
    /\ last.op = "gestionar" /\ last.ret = "False"
    /\ Existe(last.id)
    /\ Autenticado(last.cli) /\ current_user(last.cli).rol \notin DOMAIN ROLES

\* C3 as stated: comparing a request before and after one call of
\* gestionar_solicitud_db, its estado changed if and only if the call set its
\* autorizador.
C3_CambioEstado(s) == \E t \in solicitudes' : t.id = s.id /\ t.estado # s.estado
C3_PusoAutorizador(s) == last'.ret = "True" /\ last'.id = s.id

C3_EstadoCambiaSiiAutorizadorPuesto ==
    [][ last'.op = "gestionar" =>
          \A s \in solicitudes : C3_CambioEstado(s) <=> C3_PusoAutorizador(s) ]_vars

\* C3 amended: one call either returns True and has assigned both fields of
\* the one request named (estado = the target state, which may be the state
\* it already had; autorizador = the caller's username), every other request
\* untouched, or it does not return True and no field of any request changed.
C3_AsignaLosDosONinguno ==
    [][ last'.op = "gestionar" =>
          IF last'.ret = "True"
          THEN /\ Existe(last'.id)
               /\ solicitudes' =
                    (solicitudes \ {Solicitud(last'.id)}) \cup
                    {[Solicitud(last'.id) EXCEPT
                        !.estado = last'.arg,
                        !.autorizador = usuarios[sesion[last'.cli]].username]}
          ELSE solicitudes' = solicitudes ]_vars

\* a successful call by a second administrator, next to a request it did not
\* touch
C3_Testigo ==
    /\ last.op = "gestionar" /\ last.ret = "True"
    /\ Existe(last.id) /\ Solicitud(last.id).estado = "RECHAZADA"
    /\ Solicitud(last.id).autorizador = "ana"
    /\ \E s \in solicitudes :
          s.id # last.id /\ s.autorizador = "victor_admin" /\ s.estado = "APROBADA"

\* C6: eliminar_solicitud changes the Request Store only when the actor holds
\* gestionar_solicitud and the id exists, and then removes exactly that
\* request; an id that does not exist is a no-op.
C6_EliminarSoloEsa ==
    [][ last'.op = "eliminar_solicitud" =>
          IF EsGestor(last'.cli) /\ Existe(last'.id)
          THEN solicitudes' = {s \in solicitudes : s.id # last'.id}
          ELSE solicitudes' = solicitudes /\ last'.ret # "Eliminada" ]_vars

\* a deletion that left another request in the store
C6_Testigo ==
    /\ last.op = "eliminar_solicitud" /\ last.ret = "Eliminada"
    /\ ~Existe(last.id)
    /\ solicitudes # {}

\* C10: every request whose autorizador is set names a user of the Credential
\* Store whose role grants gestionar_solicitud.
C10_AutorizadorEsGestor ==
    \A s \in solicitudes :
        s.autorizador # None =>
            \E i \in IdsUsuario :
                /\ usuarios[i].username = s.autorizador
                /\ usuarios[i].rol \in DOMAIN ROLES
                /\ "gestionar_solicitud" \in ROLES[usuarios[i].rol]

\* an authorized request in the store while a logged-in user without the
\* capability has just been refused
C10_Testigo ==
    /\ \E s \in solicitudes : s.autorizador # None
    /\ last.op = "gestionar" /\ last.ret = "False" /\ Existe(last.id)
    /\ Autenticado(last.cli) /\ current_user(last.cli).rol = "Guardia"

-----------------------------------------------------------------------------
(* Claims about the Permission Table and the Credential Store (SpecUsuarios) *)

\* C4: tiene_permiso is True if and only if the actor is authenticated and
\* ROLES lists the capability for the actor's role; for an anonymous actor and
\* for a role that is no key of ROLES it is False for every capability, and it
\* always yields a boolean.  panel_admin answers 403 exactly when it is False
\* for ver_panel.
C4_TienePermiso ==
    /\ \A c \in Clientes, p \in Permisos :
          /\ tiene_permiso(c, p) \in BOOLEAN
          /\ tiene_permiso(c, p) <=>
                (/\ Autenticado(c)
                 /\ current_user(c).rol \in DOMAIN ROLES
                 /\ p \in ROLES[current_user(c).rol])
    /\ (last.op = "panel_admin" /\ Autenticado(last.cli)) =>
          (last.ret = "403" <=>
              ~(/\ current_user(last.cli).rol \in DOMAIN ROLES
                /\ "ver_panel" \in ROLES[current_user(last.cli).rol]))

\* a logged-in user whose role is no key of ROLES was refused the panel
C4_Testigo ==
    /\ last.op = "panel_admin" /\ last.ret = "403"
    /\ Autenticado(last.cli)
    /\ current_user(last.cli).rol \notin DOMAIN ROLES

\* C5: no two users share a username, and a creation request whose username
\* equals (exactly, case included) the username of an existing user is
\* rejected with the message 'Usuario ya existe' (or refused for lack of the
\* capability) and leaves the Usuario table as it was.
C5_UsernameUnico ==
    \A i, j \in IdsUsuario : usuarios[i].username = usuarios[j].username => i = j

C5_PasoDuplicado ==
    (last'.op = "gestionar_usuarios" /\ \E i \in IdsUsuario : usuarios[i].username = last'.arg)
        => (/\ usuarios' = usuarios
            /\ last'.ret \in {"Usuario ya existe", "403", "login_required"})

C5_DuplicadoRechazado == [](C5_UsernameUnico) /\ [][C5_PasoDuplicado]_vars

\* the exact duplicate GUARDIA was rejected while guardia, which differs only
\* in case, had been admitted as another user
C5_Testigo ==
    /\ last.op = "gestionar_usuarios" /\ last.ret = "Usuario ya existe"
    /\ last.arg = "GUARDIA"
    /\ \E i \in IdsUsuario : usuarios[i].username = "guardia"

\* C8: every user's rol is a key of ROLES.
C8_RolEnRoles == \A i \in IdsUsuario : usuarios[i].rol \in DOMAIN ROLES

-----------------------------------------------------------------------------
(* Claim about the queries by date (SpecFechas) *)

\* the answer holds the requests active on day last.id
RespondeVigentes ==
    \/ last.op = "lista_general_solicitudes" /\ last.arg = "hoy"
    \/ last.op = "descargar_pdf_hoy" /\ last.ret = "pdf"

\* the stored string is the zero-padded ISO form of a day, and that day
C7_EsISO(str) == \E i \in Dias : str = strftime(i)
C7_Dia(str) == CHOOSE i \in Dias : str = strftime(i)

C7_EnRango(s, hoy) ==
    IF C7_EsISO(s.fecha_inicio_str) /\ C7_EsISO(s.fecha_fin_str)
    THEN C7_Dia(s.fecha_inicio_str) <= hoy /\ hoy <= C7_Dia(s.fecha_fin_str)
    ELSE StrLeq(s.fecha_inicio_str, strftime(hoy)) /\ StrLeq(strftime(hoy), s.fecha_fin_str)

-----------------------------------------------------------------------------
(* Claim about overlapping calls (SpecCarrera) *)

\* C9: when the calls of two browsers on the same request have both returned,
\* both returned True and the request holds the estado and the autorizador of
\* the call that committed last.
C9_UltimaEscrituraGana ==
    \A a, b \in Clientes :
        (/\ a # b
         /\ hilo[a].pc = "hecho" /\ hilo[b].pc = "hecho"
         /\ hilo[a].id = hilo[b].id /\ Existe(hilo[a].id)
         /\ hilo[a].ret = "True" /\ hilo[b].ret = "True"
         /\ last.op = "gestionar" /\ last.cli = b)
        => /\ Solicitud(hilo[b].id).estado = hilo[b].accion
           /\ Solicitud(hilo[b].id).autorizador = hilo[b].autorizador

====
